---- MODULE Spec2Model ----
(***************************************************************************)
(* Memory store of project-brain: the memories table with its FTS5 index   *)
(* (kept by triggers), the vec_memories vector table, links and            *)
(* memory_history, and the tools that write them: save_memory,             *)
(* update_memory, supersede_memory, delete_memory (tools/memory.ts),       *)
(* smart_save_memory, handle_correction (tools/memory-smart), search,      *)
(* batch_embed and the fire-and-forget autoEmbed of utils/embeddings.      *)
(*                                                                         *)
(* A content string is modelled by its set of whitespace-separated tokens. *)
(* A NULL column is the string "null"; a NULL id is NoId.                  *)
(***************************************************************************)
EXTENDS Integers, FiniteSets, Sequences, TLC

\* ------------------------------------------------------------------ bounds
MaxOps == 2

\* ------------------------------------------------------------ input spaces
Tokens == {"dark", "mode", "theme"}
Contents == {{"dark"}, {"dark", "mode"}}
EmptyContent == {}
NoId == 0
FoundingId == 1

\* last_accessed_at of a memory no tool has returned yet (NULL).
Never == -1

VARIABLES
  memories,        \* rowid -> row of table memories
  memories_fts,    \* set of index entries [rowid, content, category, tags]
  vec_memories,    \* rowid -> embedding
  links,           \* set of rows of table links
  memory_history,  \* sequence of rows of table memory_history
  extractorPromise,\* "null" | "loading" | "ready" | "failed"
  pipelineCalls,   \* number of model loads getExtractor has started
  embed_tasks,     \* autoEmbed calls suspended at await generateEmbedding
  smart_calls,     \* smart_save_memory calls suspended at await generateEmbedding
  batch_calls,     \* batch_embed calls suspended at await generateEmbeddings
  nextId,          \* next id generateId hands out
  opCount,         \* number of tool calls made
  lastOp,          \* the last tool call and what it returned
  config,          \* database name -> key -> value of table config
  search_calls,    \* hybrid_search and semantic_search calls suspended at await
  lastSearch,      \* the last search call that returned, and its answer
  query_log,       \* sequence of rows of table query_log
  daily_log_items  \* item id -> row of table daily_log_items

vars == <<memories, memories_fts, vec_memories, links, memory_history,
          extractorPromise, pipelineCalls, embed_tasks, smart_calls, batch_calls, nextId,
          opCount, lastOp, config, search_calls, lastSearch, query_log,
          daily_log_items>>

\* The state of the retrieval tools.
searchVars == <<config, search_calls, lastSearch, query_log>>

\* ----------------------------------------------------------------- helpers
Max(S) == CHOOSE x \in S : \A y \in S : y <= x

\* The connection's tables as one value, so that a statement is a function
\* from tables to tables and a transaction is a composition of statements.
Tables == [memories |-> memories, memories_fts |-> memories_fts,
           vec_memories |-> vec_memories, links |-> links,
           memory_history |-> memory_history]

Commit(db) ==
  /\ memories' = db.memories
  /\ memories_fts' = db.memories_fts
  /\ vec_memories' = db.vec_memories
  /\ links' = db.links
  /\ memory_history' = db.memory_history

RowidOf(mems, id) ==
  IF \E k \in DOMAIN mems : mems[k].id = id
    THEN CHOOSE k \in DOMAIN mems : mems[k].id = id
    ELSE 0

Exists(mems, id) == RowidOf(mems, id) # 0

Get(mems, id) == mems[RowidOf(mems, id)]

\* memories has a TEXT primary key and no AUTOINCREMENT: SQLite gives a new
\* row the rowid max(rowid) + 1, so the rowid of a deleted last row is reused.
NewRowid(mems) == IF DOMAIN mems = {} THEN 1 ELSE Max(DOMAIN mems) + 1

FtsEntry(k, row) ==
  [rowid |-> k, content |-> row.content, category |-> row.category, tags |-> row.tags]

\* Trigger memories_ai.
memories_ai(fts, k, new) == fts \cup {FtsEntry(k, new)}

\* Trigger memories_ad.
memories_ad(fts, k, old) == fts \ {FtsEntry(k, old)}

\* C10 mutant: the update trigger without its 'delete' statement, so the entry
\* of the old values stays in the index.
memories_au_KeepsOld(fts, k, old, new) == fts \cup {FtsEntry(k, new)}

\* Trigger memories_au.
memories_au(fts, k, old, new) == (fts \ {FtsEntry(k, old)}) \cup {FtsEntry(k, new)}

\* datetime('now'): the time of the current tool call.  Calls are made at
\* distinct times; the rows of the initial database are older.
Now == opCount + 3

\* A row as INSERT INTO memories creates it: the columns the statement does
\* not name take the defaults of the CREATE TABLE.
NewRow(id, content, category, subcategory, tags, importance, metadata) ==
  [id |-> id, content |-> content, category |-> category,
   subcategory |-> subcategory, tags |-> tags, source |-> "claude_code",
   status |-> "active", superseded_by |-> NoId, importance |-> importance,
   metadata |-> metadata, has_embedding |-> 0, access_count |-> 0,
   decay_score |-> 10, updated_at |-> Now, last_accessed_at |-> Never]

\* INSERT INTO memories ... (with trigger memories_ai).
InsertMemory(db, row) ==
  LET k == NewRowid(db.memories) IN
  [db EXCEPT !.memories = [j \in DOMAIN db.memories \cup {k} |->
                              IF j = k THEN row ELSE db.memories[j]],
             !.memories_fts = memories_ai(db.memories_fts, k, row)]

\* UPDATE memories SET <fields of set> WHERE id = ? (with trigger memories_au).
UpdateMemory(db, id, set) ==
  IF ~Exists(db.memories, id) THEN db
  ELSE LET k == RowidOf(db.memories, id)
           old == db.memories[k]
           new == [f \in DOMAIN old |-> IF f \in DOMAIN set THEN set[f] ELSE old[f]]
       IN [db EXCEPT !.memories = [db.memories EXCEPT ![k] = new],
                     !.memories_fts = memories_au(db.memories_fts, k, old, new)]

\* C14 mutant: the delete cascades to the history rows of the memory.
DeleteMemory_Cascade(db, id) ==
  IF ~Exists(db.memories, id) THEN db
  ELSE LET k == RowidOf(db.memories, id)
       IN [db EXCEPT !.memories = [j \in DOMAIN db.memories \ {k} |-> db.memories[j]],
                     !.memories_fts = memories_ad(db.memories_fts, k, db.memories[k]),
                     !.memory_history = SelectSeq(db.memory_history,
                                          LAMBDA h : h.memory_id # id)]

\* DELETE FROM memories WHERE id = ? (with trigger memories_ad).
DeleteMemory(db, id) ==
  IF ~Exists(db.memories, id) THEN db
  ELSE LET k == RowidOf(db.memories, id)
       IN [db EXCEPT !.memories = [j \in DOMAIN db.memories \ {k} |-> db.memories[j]],
                     !.memories_fts = memories_ad(db.memories_fts, k, db.memories[k])]

\* C13 mutant: the INSERT OR IGNORE INTO links always ignores.
InsertLink_Ignored(db, source_id, target_id, relationship) == db

InsertLink(db, source_id, target_id, relationship) ==
  [db EXCEPT !.links = db.links \cup
     {[source_id |-> source_id, target_id |-> target_id, relationship |-> relationship]}]

InsertHistory(db, memory_id, operation, before, after) ==
  [db EXCEPT !.memory_history = Append(db.memory_history,
     [memory_id |-> memory_id, operation |-> operation,
      content_before |-> before, content_after |-> after])]

\* The all-MiniLM embedding of a text, abstracted to one coordinate per token.
generateEmbedding(text) == [t \in Tokens |-> IF t \in text THEN 1 ELSE 0]

\* C1 mutant: isImmutable without its metadata.immutable trigger.
isImmutable_NoMetadata(memory) ==
  \/ memory.source = "founding"
  \/ memory.category = "hard_constraint"
  \/ (memory.category = "value" /\ memory.subcategory = "core")

\* ------------------------------------------------------------ immutability
isImmutable(memory) ==
  \/ memory.source = "founding"
  \/ memory.category = "hard_constraint"
  \/ (memory.category = "value" /\ memory.subcategory = "core")
  \/ memory.metadata = "immutable"

\* ------------------------------------------------------------------- state
FoundingRow ==
  [id |-> FoundingId, content |-> {"dark"}, category |-> "value",
   subcategory |-> "core", tags |-> "null", source |-> "founding",
   status |-> "active", superseded_by |-> NoId, importance |-> 5,
   metadata |-> "immutable", has_embedding |-> 0, access_count |-> 0,
   decay_score |-> 10, updated_at |-> 0, last_accessed_at |-> Never]

NoOp == [op |-> "none", id |-> NoId, res |-> "none", new |-> NoId, ids |-> {}]

\* A memory that smart_save_memory added and autoEmbed embedded.
SavedRow ==
  [id |-> FoundingId + 1, content |-> {"dark", "mode"}, category |-> "fact",
   subcategory |-> "null", tags |-> "null", source |-> "claude_code",
   status |-> "active", superseded_by |-> NoId, importance |-> 3,
   metadata |-> "null", has_embedding |-> 1, access_count |-> 0,
   decay_score |-> 10, updated_at |-> 1, last_accessed_at |-> Never]

\* The databases the server opens.  The memory tables of the model are those
\* of core; no memory of the other database is written here, so its memory
\* tables stay as initializeSchema creates them, empty.
DbNames == {"core", "therapy"}

\* The four retrieval weights, and the config key of each.
WeightNames == {"vector", "fts", "recency", "importance"}

\* Table config without retrieval keys.
EmptyConfig == [f \in {} |-> 0]

NoSearch == [op |-> "none", db |-> "core", query |-> EmptyContent, limit |-> 0,
             overrides |-> EmptyConfig, weights |-> EmptyConfig, res |-> "none",
             results |-> <<>>, scored |-> {}, hint |-> "none"]

\* A daily log item that is pending review.
PendingItem == [content |-> {"mode"}, status |-> "pending", promoted_to_id |-> NoId]

\* What the tables outside the memory store hold at start.
InitOther ==
  /\ links = {}
  /\ extractorPromise = "null"
  /\ pipelineCalls = 0
  /\ embed_tasks = {}
  /\ smart_calls = {}
  /\ batch_calls = {}
  /\ opCount = 0
  /\ lastOp = NoOp
  /\ config = [d \in DbNames |-> EmptyConfig]
  /\ search_calls = {}
  /\ lastSearch = NoSearch
  /\ query_log = <<>>
  /\ daily_log_items = [i \in {1} |-> PendingItem]

\* The server starts on a seeded database: either right after seeding, or
\* after an earlier run in which a memory was added and embedded.
Init ==
  /\ \/ /\ memories = [k \in {1} |-> FoundingRow]
        /\ memories_fts = {FtsEntry(1, FoundingRow)}
        /\ vec_memories = [k \in {} |-> generateEmbedding({})]
        /\ memory_history = <<>>
        /\ nextId = FoundingId + 1
     \/ /\ memories = [k \in {1, 2} |-> IF k = 1 THEN FoundingRow ELSE SavedRow]
        /\ memories_fts = {FtsEntry(1, FoundingRow), FtsEntry(2, SavedRow)}
        /\ vec_memories = [k \in {2} |-> generateEmbedding(SavedRow.content)]
        /\ memory_history = <<[memory_id |-> SavedRow.id, operation |-> "created",
                               content_before |-> EmptyContent,
                               content_after |-> SavedRow.content]>>
        /\ nextId = FoundingId + 2
  /\ InitOther

\* The ids a tool is called with: those of the stored memories and one that
\* names no memory.
Ids == {memories[k].id : k \in DOMAIN memories} \cup {nextId}

\* A tool call that runs to its return without awaiting.
Called(op, id, res, new) ==
  /\ opCount < MaxOps
  /\ opCount' = opCount + 1
  /\ lastOp' = [op |-> op, id |-> id, res |-> res, new |-> new, ids |-> {}]

\* A tool call that suspends at an await.
Awaiting(op) ==
  /\ opCount < MaxOps
  /\ opCount' = opCount + 1
  /\ lastOp' = [op |-> op, id |-> NoId, res |-> "AWAIT", new |-> NoId, ids |-> {}]

\* The return of a tool call that had suspended.
Returned(op, res, new, ids) ==
  /\ opCount' = opCount
  /\ lastOp' = [op |-> op, id |-> NoId, res |-> res, new |-> new, ids |-> ids]

\* ------------------------------------------------------------- save_memory
\* The drafts save_memory is called with: one per immutability trigger a
\* tool can set, and two that set none.
SaveDrafts ==
  { [category |-> "fact", subcategory |-> "null", metadata |-> "null"],
    [category |-> "value", subcategory |-> "core", metadata |-> "null"],
    [category |-> "hard_constraint", subcategory |-> "null", metadata |-> "null"],
    [category |-> "fact", subcategory |-> "null", metadata |-> "immutable"] }

SaveInputs ==
  {[content |-> c, draft |-> d] : c \in {{"dark"}}, d \in SaveDrafts}
  \cup {[content |-> {"dark", "mode"},
         draft |-> [category |-> "fact", subcategory |-> "null", metadata |-> "null"]]}

save_memory(content, draft) ==
  /\ UNCHANGED <<searchVars, daily_log_items>>
  /\ Called("save_memory", nextId, "OK", nextId)
  /\ \E db \in {InsertMemory(Tables,
         NewRow(nextId, content, draft.category, draft.subcategory, "null", 3,
                draft.metadata))} : Commit(db)
  /\ nextId' = nextId + 1
  /\ UNCHANGED <<extractorPromise, pipelineCalls, embed_tasks, smart_calls, batch_calls>>

\* ----------------------------------------------------------- update_memory
EmptyPatch == [f \in {} |-> "null"]

\* The patches update_memory is called with: none, or one field.  A field
\* that is not in the domain of the patch is undefined in the call.
Patches ==
  {EmptyPatch, [content |-> {"dark"}]}
  \cup {[category |-> "hard_constraint"], [tags |-> "ui"], [metadata |-> "immutable"]}
  \cup {[status |-> st] : st \in {"active", "archived"}}

\* The SET clause update_memory builds: the fields given, and updated_at.
UpdateSet(patch) ==
  [f \in DOMAIN patch \cup {"updated_at"} |->
     IF f = "updated_at" THEN Now ELSE patch[f]]

update_memory(id, patch) ==
  /\ opCount < MaxOps
  /\ UNCHANGED <<searchVars, daily_log_items>>
  /\ IF ~Exists(memories, id) THEN
       /\ Called("update_memory", id, "NOT_FOUND", NoId)
       /\ UNCHANGED <<memories, memories_fts, vec_memories, links, memory_history,
                      extractorPromise, pipelineCalls, embed_tasks, smart_calls, batch_calls, nextId>>
     ELSE IF isImmutable(Get(memories, id)) THEN
       /\ Called("update_memory", id, "BLOCKED", NoId)
       /\ UNCHANGED <<memories, memories_fts, vec_memories, links, memory_history,
                      extractorPromise, pipelineCalls, embed_tasks, smart_calls, batch_calls, nextId>>
     ELSE IF DOMAIN patch = {} THEN
       /\ Called("update_memory", id, "NO_FIELDS", NoId)
       /\ UNCHANGED <<memories, memories_fts, vec_memories, links, memory_history,
                      extractorPromise, pipelineCalls, embed_tasks, smart_calls, batch_calls, nextId>>
     ELSE
       /\ Called("update_memory", id, "OK", NoId)
       /\ \E db \in {UpdateMemory(Tables, id, UpdateSet(patch))} : Commit(db)
       /\ UNCHANGED <<extractorPromise, pipelineCalls, embed_tasks, smart_calls, batch_calls, nextId>>

\* ----------------------------------------------------------- delete_memory
delete_memory(id) ==
  /\ opCount < MaxOps
  /\ UNCHANGED <<searchVars, daily_log_items>>
  /\ IF ~Exists(memories, id) THEN
       /\ Called("delete_memory", id, "NOT_FOUND", NoId)
       /\ UNCHANGED <<memories, memories_fts, vec_memories, links, memory_history,
                      extractorPromise, pipelineCalls, embed_tasks, smart_calls, batch_calls, nextId>>
     ELSE IF isImmutable(Get(memories, id)) THEN
       /\ Called("delete_memory", id, "BLOCKED", NoId)
       /\ UNCHANGED <<memories, memories_fts, vec_memories, links, memory_history,
                      extractorPromise, pipelineCalls, embed_tasks, smart_calls, batch_calls, nextId>>
     ELSE
       /\ Called("delete_memory", id, "OK", NoId)
       /\ \E db \in {DeleteMemory(Tables, id)} : Commit(db)
       /\ UNCHANGED <<extractorPromise, pipelineCalls, embed_tasks, smart_calls, batch_calls, nextId>>

\* -------------------------------------------------------- supersede_memory
\* db.transaction(fn): the statements of fn in order; when statement number
\* failAt throws, everything is rolled back.  failAt = 0: no statement throws.
\* C6 mutant: the statements run outside a transaction, so those before the
\* failing one stay written.
Transaction_NoRollback(db, steps, failAt) ==
  IF failAt = 0 THEN steps[Len(steps)]
  ELSE IF failAt = 1 \/ failAt > Len(steps) THEN db ELSE steps[failAt - 1]

Transaction(db, steps, failAt) ==
  IF failAt = 0 THEN steps[Len(steps)] ELSE db

\* C5 mutant: the two bound parameters of the UPDATE in the wrong order.
SupersedeOld_Swapped(db, old_id, newId) ==
  UpdateMemory(db, newId, [status |-> "superseded", superseded_by |-> old_id])

\* UPDATE memories SET status = 'superseded', superseded_by = ? WHERE id = ?
SupersedeOld(db, old_id, newId) ==
  UpdateMemory(db, old_id, [status |-> "superseded", superseded_by |-> newId, updated_at |-> Now])

\* The tables after each of the three statements of supersede_memory.
SupersedeSteps(db, oldMemory, newId, new_content, reason) ==
  LET s1 == InsertMemory(db,
              NewRow(newId, new_content, oldMemory.category, oldMemory.subcategory,
                     oldMemory.tags, oldMemory.importance,
                     IF reason THEN "other" ELSE oldMemory.metadata))
      s2 == SupersedeOld(s1, oldMemory.id, newId)
      s3 == InsertLink(s2, newId, oldMemory.id, "supersedes")
  IN <<s1, s2, s3>>

supersede_memory(old_id, new_content, reason, failAt) ==
  /\ opCount < MaxOps
  /\ UNCHANGED <<searchVars, daily_log_items>>
  /\ IF ~Exists(memories, old_id) THEN
       /\ Called("supersede_memory", old_id, "NOT_FOUND", NoId)
       /\ UNCHANGED <<memories, memories_fts, vec_memories, links, memory_history,
                      extractorPromise, pipelineCalls, embed_tasks, smart_calls, batch_calls, nextId>>
     ELSE IF isImmutable(Get(memories, old_id)) THEN
       /\ Called("supersede_memory", old_id, "BLOCKED", NoId)
       /\ UNCHANGED <<memories, memories_fts, vec_memories, links, memory_history,
                      extractorPromise, pipelineCalls, embed_tasks, smart_calls, batch_calls, nextId>>
     ELSE
       /\ Called("supersede_memory", old_id, IF failAt = 0 THEN "OK" ELSE "THROWN",
                 IF failAt = 0 THEN nextId ELSE NoId)
       /\ \E db \in {Transaction(Tables,
              SupersedeSteps(Tables, Get(memories, old_id), nextId, new_content, reason),
              failAt)} : Commit(db)
       /\ nextId' = nextId + 1
       /\ UNCHANGED <<extractorPromise, pipelineCalls, embed_tasks, smart_calls, batch_calls>>

\* --------------------------------------------------------------- embedder
\* C25 mutant: the cache test looks at the loaded model, not at the promise.
StartsLoad_UntilLoaded(promise) == promise \in {"null", "loading"}

\* C29 mutant: a rejected load is not kept, the next call loads again.
StartsLoad_AfterFailure(promise) == promise \in {"null", "failed"}

\* if (!extractorPromise): no promise is cached.
StartsLoad(promise) == promise = "null"

\* getExtractor(): the first call creates the load promise.
getExtractor(promise) == IF StartsLoad(promise) THEN "loading" ELSE promise

\* A call of getExtractor() by generateEmbedding or generateEmbeddings.
CallGetExtractor ==
  /\ extractorPromise' = getExtractor(extractorPromise)
  /\ pipelineCalls' = IF StartsLoad(extractorPromise) THEN pipelineCalls + 1
                      ELSE pipelineCalls

\* autoEmbed up to its await: the text check, the rowid lookup and the call
\* of generateEmbedding.  Yields the suspended call, if any.
autoEmbedCall(mems, id, text) ==
  IF text = EmptyContent \/ ~Exists(mems, id) THEN {}
  ELSE {[id |-> id, rowid |-> RowidOf(mems, id), text |-> text]}

\* autoEmbed after its await: delete the old vector, insert the new one,
\* set the flag.
autoEmbedWrite(db, task) ==
  LET vec == [k \in DOMAIN db.vec_memories \cup {task.rowid} |->
                IF k = task.rowid THEN generateEmbedding(task.text)
                                  ELSE db.vec_memories[k]]
  IN UpdateMemory([db EXCEPT !.vec_memories = vec], task.id, [has_embedding |-> 1])

\* The model load resolves.
ExtractorLoaded ==
  /\ UNCHANGED <<searchVars, daily_log_items>>
  /\ extractorPromise = "loading"
  /\ extractorPromise' = "ready"
  /\ UNCHANGED pipelineCalls
  /\ UNCHANGED <<memories, memories_fts, vec_memories, links, memory_history,
                 embed_tasks, smart_calls, batch_calls, nextId, opCount, lastOp>>

\* The model load rejects; the rejected promise stays cached.
ExtractorFailed ==
  /\ UNCHANGED <<searchVars, daily_log_items>>
  /\ extractorPromise = "loading"
  /\ extractorPromise' = "failed"
  /\ UNCHANGED pipelineCalls
  /\ UNCHANGED <<memories, memories_fts, vec_memories, links, memory_history,
                 embed_tasks, smart_calls, batch_calls, nextId, opCount, lastOp>>

autoEmbedResume(task) ==
  /\ UNCHANGED <<searchVars, daily_log_items>>
  /\ task \in embed_tasks
  /\ extractorPromise = "ready"
  /\ \E db \in {autoEmbedWrite(Tables, task)} : Commit(db)
  /\ embed_tasks' = embed_tasks \ {task}
  /\ UNCHANGED <<extractorPromise, pipelineCalls, smart_calls, batch_calls, nextId, opCount, lastOp>>

autoEmbedCatch(task) ==
  /\ UNCHANGED <<searchVars, daily_log_items>>
  /\ task \in embed_tasks
  /\ extractorPromise = "failed"
  /\ embed_tasks' = embed_tasks \ {task}
  /\ UNCHANGED <<memories, memories_fts, vec_memories, links, memory_history,
                 extractorPromise, pipelineCalls, smart_calls, batch_calls, nextId, opCount, lastOp>>

\* ------------------------------------------------------------ text search
\* The tokens memories_fts indexes for a row: its content, category and tags.
FtsTokens(entry) ==
  entry.content \cup {entry.category} \cup (IF entry.tags = "null" THEN {} ELSE {entry.tags})

\* memories_fts MATCH ? on a sanitized query: every quoted term must occur.
FtsMatch(entry, query) == query # {} /\ query \subseteq FtsTokens(entry)

\* SELECT m.* FROM memories m JOIN memories_fts ON memories_fts.rowid = m.rowid
\* WHERE memories_fts MATCH ? AND m.status = 'active': the rowids selected.
FtsActive(db, query) ==
  {k \in DOMAIN db.memories :
     /\ db.memories[k].status = "active"
     /\ \E e \in db.memories_fts : e.rowid = k /\ FtsMatch(e, query)}

\* ORDER BY rank LIMIT n: the results the query may give.  bm25 decides the
\* order; every choice of n of the matching rows is a possible answer.
Limited(rows, n) ==
  IF Cardinality(rows) <= n THEN {rows}
  ELSE {S \in SUBSET rows : Cardinality(S) = n}

\* calculateSimilarity(a, b) > 0.5 on token sets.
SimilarityAboveHalf(a, b) ==
  LET sa == Cardinality(a)
      sb == Cardinality(b)
  IN /\ sa # 0
     /\ sb # 0
     /\ 2 * Cardinality(a \cap b) > (IF sa >= sb THEN sa ELSE sb)

\* ------------------------------------------------------------ vector search
RECURSIVE SumOver(_, _)
SumOver(f, S) ==
  IF S = {} THEN 0
  ELSE LET x == CHOOSE y \in S : TRUE IN f[x] + SumOver(f, S \ {x})

Dot(u, v) == SumOver([t \in Tokens |-> u[t] * v[t]], Tokens)

\* vec0 distance between the normalized vectors is below 0.9:
\* 2 - 2 cos < 0.81, that is cos > 0.595, squared and cleared of fractions.
DistanceBelowThreshold(u, v) ==
  \/ u = v
  \/ /\ Dot(u, v) > 0
     /\ Dot(u, v) * Dot(u, v) * 1000000 > 354025 * Dot(u, u) * Dot(v, v)

\* u is at least as near to q as v is (cosine of normalized vectors).
AsNear(q, u, v) ==
  \/ u = q
  \/ /\ v # q
     /\ Dot(q, u) * Dot(q, u) * Dot(v, v) >= Dot(q, v) * Dot(q, v) * Dot(u, u)

\* WHERE embedding MATCH ? AND k = n: the n nearest rowids of vec_memories.
Knn(vec, q, n) ==
  IF Cardinality(DOMAIN vec) <= n THEN {DOMAIN vec}
  ELSE {S \in SUBSET DOMAIN vec :
          /\ Cardinality(S) = n
          /\ \A a \in S, b \in DOMAIN vec \ S : AsNear(q, vec[a], vec[b])}

\* -------------------------------------------------------- handle_correction
NoRow == [id |-> NoId, content |-> EmptyContent, category |-> "null",
          subcategory |-> "null", tags |-> "null", source |-> "null"]

\* Step 1 of handle_correction: the rows it may take for the wrong memory.
FindWrongMemory(db, wrong_memory_id, wrong_content) ==
  IF wrong_memory_id # NoId THEN
    IF Exists(db.memories, wrong_memory_id)
      THEN {Get(db.memories, wrong_memory_id)} ELSE {NoRow}
  ELSE IF wrong_content # EmptyContent THEN
    IF FtsActive(db, wrong_content) = {} THEN {NoRow}
    ELSE {db.memories[k] : k \in FtsActive(db, wrong_content)}
  ELSE {NoRow}

\* The tables after each statement of the transaction of handle_correction.
\* C3 mutant: the UPDATE writes the wrong status literal.
ArchiveWrong_Active(db, wrong_id, newMemId) ==
  UpdateMemory(db, wrong_id, [status |-> "active", superseded_by |-> newMemId])

\* UPDATE memories SET status = 'archived', superseded_by = ? WHERE id = ?
ArchiveWrong(db, wrong_id, newMemId) ==
  UpdateMemory(db, wrong_id,
    [status |-> "archived", superseded_by |-> newMemId, updated_at |-> Now])

CorrectionSteps(db, wrongMemory, newMemId, correct_content, category, tags) ==
  LET s1 == InsertMemory(db,
              NewRow(newMemId, correct_content,
                     IF category # "null" THEN category
                     ELSE IF wrongMemory.id # NoId THEN wrongMemory.category
                     ELSE "correction",
                     wrongMemory.subcategory,
                     IF tags # "null" THEN tags ELSE wrongMemory.tags,
                     5, "null"))
      s2 == ArchiveWrong(s1, wrongMemory.id, newMemId)
      s3 == InsertLink(s2, newMemId, wrongMemory.id, "corrects")
      s4 == InsertHistory(s3, wrongMemory.id, "corrected", wrongMemory.content,
                          EmptyContent)
  IN IF wrongMemory.id # NoId
       THEN <<s1, s2, s3, s4,
              InsertHistory(s4, newMemId, "created", wrongMemory.content, correct_content)>>
       ELSE <<s1, InsertHistory(s1, newMemId, "created", EmptyContent, correct_content)>>

handle_correction(wrong_memory_id, wrong_content, correct_content, category, failAt) ==
  /\ opCount < MaxOps
  /\ UNCHANGED <<searchVars, daily_log_items>>
  /\ \E wrongMemory \in FindWrongMemory(Tables, wrong_memory_id, wrong_content) :
       IF wrongMemory.id # NoId /\ wrongMemory.source = "founding" THEN
         /\ failAt = 0
         /\ Called("handle_correction", wrongMemory.id, "BLOCKED", NoId)
         /\ UNCHANGED <<memories, memories_fts, vec_memories, links, memory_history,
                        extractorPromise, pipelineCalls, embed_tasks, smart_calls, batch_calls, nextId>>
       ELSE
         \E steps \in {CorrectionSteps(Tables, wrongMemory, nextId, correct_content,
                                        category, "null")} :
         \E db \in {Transaction(Tables, steps, failAt)} :
         \E task \in {IF failAt = 0
                        THEN autoEmbedCall(db.memories, nextId, correct_content)
                        ELSE {}} :
            /\ failAt <= Len(steps)
            /\ Called("handle_correction", wrongMemory.id,
                      IF failAt = 0 THEN "corrected" ELSE "THROWN",
                      IF failAt = 0 THEN nextId ELSE NoId)
            /\ Commit(db)
            /\ embed_tasks' = embed_tasks \cup task
            /\ IF task # {} THEN CallGetExtractor
                 ELSE UNCHANGED <<extractorPromise, pipelineCalls>>
            /\ nextId' = nextId + 1
            /\ UNCHANGED <<smart_calls, batch_calls>>

\* -------------------------------------------------------- smart_save_memory
SmartInputs ==
  {[content |-> c, draft |-> [category |-> "fact", is_correction |-> FALSE]]
     : c \in Contents \cup {EmptyContent}}
  \cup {[content |-> {"dark", "mode"},
         draft |-> [category |-> "fact", is_correction |-> TRUE]],
        [content |-> {"dark", "mode"},
         draft |-> [category |-> "correction", is_correction |-> FALSE]]}

\* C12 mutant: the transaction without its INSERT INTO memory_history.
SmartSaveSteps_NoHistory(db, memId, content, draft) ==
  LET s1 == InsertMemory(db,
              NewRow(memId, content, draft.category, "null", "null",
                     IF draft.is_correction \/ draft.category = "correction"
                       THEN 5 ELSE 3,
                     "null"))
  IN <<s1, s1>>

\* The tables after each statement of the transaction of smart_save_memory.
SmartSaveSteps(db, memId, content, draft) ==
  LET s1 == InsertMemory(db,
              NewRow(memId, content, draft.category, "null", "null",
                     IF draft.is_correction \/ draft.category = "correction"
                       THEN 5 ELSE 3,
                     "null"))
  IN <<s1, InsertHistory(s1, memId, "created", EmptyContent, content)>>

\* Step 2 of smart_save_memory: the transaction, then autoEmbed.
SmartSaveAdd(content, draft, failAt) ==
  \E steps \in {SmartSaveSteps(Tables, nextId, content, draft)} :
  \E db \in {Transaction(Tables, steps, failAt)} :
  \E task \in {IF failAt = 0 THEN autoEmbedCall(db.memories, nextId, content) ELSE {}} :
    /\ failAt <= Len(steps)
    /\ Commit(db)
    /\ embed_tasks' = embed_tasks \cup task
    /\ IF task # {} THEN CallGetExtractor
                 ELSE UNCHANGED <<extractorPromise, pipelineCalls>>
    /\ nextId' = nextId + 1
    /\ lastOp' = [op |-> "smart_save_memory", id |-> NoId,
                  res |-> IF failAt = 0 THEN "added" ELSE "THROWN",
                  new |-> IF failAt = 0 THEN nextId ELSE NoId, ids |-> {}]

\* The duplicates the vector step may report: the active rows among the five
\* nearest vectors whose distance is below 0.9.
VectorDuplicates(db, content) ==
  { {k \in nn \cap DOMAIN db.memories :
       /\ db.memories[k].status = "active"
       /\ DistanceBelowThreshold(db.vec_memories[k], generateEmbedding(content))}
    : nn \in Knn(db.vec_memories, generateEmbedding(content), 5) }

\* The duplicates the fallback may report: the rows among five active text
\* matches whose token overlap is above 0.5.
TextDuplicates(db, content) ==
  { {k \in similar : SimilarityAboveHalf(db.memories[k].content, content)}
    : similar \in Limited(FtsActive(db, content), 5) }

\* smart_save_memory with force_add: no await before the write.
smart_save_memory_force(content, draft, failAt) ==
  /\ opCount < MaxOps
  /\ UNCHANGED <<searchVars, daily_log_items>>
  /\ opCount' = opCount + 1
  /\ SmartSaveAdd(content, draft, failAt)
  /\ UNCHANGED <<smart_calls, batch_calls>>

\* smart_save_memory without force_add, up to await generateEmbedding.
smart_save_memory(content, draft) ==
  /\ UNCHANGED <<searchVars, daily_log_items>>
  /\ Awaiting("smart_save_memory")
  /\ CallGetExtractor
  /\ smart_calls' = smart_calls \cup
       {[call |-> opCount + 1, content |-> content, draft |-> draft]}
  /\ UNCHANGED <<memories, memories_fts, vec_memories, links, memory_history,
                 embed_tasks, batch_calls, nextId>>

\* smart_save_memory after the await: the duplicate check, then the write.
smart_save_resume(c, failAt) ==
  /\ UNCHANGED <<searchVars, daily_log_items>>
  /\ c \in smart_calls
  /\ extractorPromise \in {"ready", "failed"}
  /\ \E dups \in (IF extractorPromise = "ready"
                    THEN VectorDuplicates(Tables, c.content)
                    ELSE TextDuplicates(Tables, c.content)) :
       IF dups # {} THEN
         /\ failAt = 0
         /\ Returned("smart_save_memory", "needs_decision", NoId,
                     {memories[k].id : k \in dups})
         /\ smart_calls' = smart_calls \ {c}
         /\ UNCHANGED <<memories, memories_fts, vec_memories, links, memory_history,
                        extractorPromise, pipelineCalls, embed_tasks, batch_calls, nextId>>
       ELSE
         /\ opCount' = opCount
         /\ SmartSaveAdd(c.content, c.draft, failAt)
         /\ smart_calls' = smart_calls \ {c}
         /\ UNCHANGED batch_calls

\* ------------------------------------------------------- promote_daily_item
\* The tables after each of the three statements of promote_daily_item; the
\* second one writes daily_log_items.
PromoteSteps(db, memId, item, category) ==
  LET s1 == InsertMemory(db, NewRow(memId, item.content, category, "null", "null",
                                    3, "null"))
  IN <<s1, s1, InsertHistory(s1, memId, "promoted", EmptyContent, item.content)>>

promote_daily_item(item_id, category, failAt) ==
  /\ opCount < MaxOps
  /\ UNCHANGED <<searchVars, smart_calls, batch_calls>>
  /\ IF item_id \notin DOMAIN daily_log_items THEN
       /\ failAt = 0
       /\ Called("promote_daily_item", NoId, "NOT_FOUND", NoId)
       /\ UNCHANGED <<memories, memories_fts, vec_memories, links, memory_history,
                      extractorPromise, pipelineCalls, embed_tasks, nextId, daily_log_items>>
     ELSE IF daily_log_items[item_id].status = "promoted" THEN
       /\ failAt = 0
       /\ Called("promote_daily_item", NoId, "ALREADY", NoId)
       /\ UNCHANGED <<memories, memories_fts, vec_memories, links, memory_history,
                      extractorPromise, pipelineCalls, embed_tasks, nextId, daily_log_items>>
     ELSE
       \E item \in {daily_log_items[item_id]} :
       \E db \in {Transaction(Tables, PromoteSteps(Tables, nextId, item, category),
                              failAt)} :
       \E task \in {IF failAt = 0
                      THEN autoEmbedCall(db.memories, nextId, item.content)
                      ELSE {}} :
         /\ Called("promote_daily_item", NoId,
                   IF failAt = 0 THEN "promoted" ELSE "THROWN",
                   IF failAt = 0 THEN nextId ELSE NoId)
         /\ Commit(db)
         /\ daily_log_items' =
              IF failAt = 0
                THEN [daily_log_items EXCEPT ![item_id] =
                        [item EXCEPT !.status = "promoted", !.promoted_to_id = nextId]]
                ELSE daily_log_items
         /\ embed_tasks' = embed_tasks \cup task
         /\ IF task # {} THEN CallGetExtractor
                 ELSE UNCHANGED <<extractorPromise, pipelineCalls>>
         /\ nextId' = nextId + 1

\* ------------------------------------------------------------------ search
\* UPDATE memories SET access_count = access_count + 1, decay_score =
\* MIN(1.0, decay_score + 0.1) WHERE id = ?, for each returned id.
\* C20 mutant: the boost without MIN(1.0, ...).
AccessSet_NoCap(m) ==
  [access_count |-> m.access_count + 1, last_accessed_at |-> Now,
   decay_score |-> m.decay_score + 1]

\* SET access_count = access_count + 1, last_accessed_at = datetime('now'),
\* decay_score = MIN(1.0, decay_score + 0.1)
AccessSet(m) ==
  [access_count |-> m.access_count + 1, last_accessed_at |-> Now,
   decay_score |-> IF m.decay_score + 1 < 10 THEN m.decay_score + 1 ELSE 10]

RECURSIVE UpdateAccess(_, _)
UpdateAccess(db, ids) ==
  IF ids = {} THEN db
  ELSE LET id == CHOOSE x \in ids : TRUE
       IN UpdateAccess(UpdateMemory(db, id, AccessSet(Get(db.memories, id))),
                       ids \ {id})

Queries == {{"dark"}, {"mode"}}

SearchLimit == 20

search(query) ==
  /\ opCount < MaxOps
  /\ UNCHANGED <<searchVars, daily_log_items>>
  /\ \E rows \in Limited(FtsActive(Tables, query), SearchLimit) :
     \E ids \in {{memories[k].id : k \in rows}} :
     \E db \in {UpdateAccess(Tables, ids)} :
       /\ Commit(db)
       /\ opCount' = opCount + 1
       /\ lastOp' = [op |-> "search", id |-> NoId, res |-> "OK", new |-> NoId,
                     ids |-> ids]
       /\ UNCHANGED <<extractorPromise, pipelineCalls, embed_tasks, smart_calls, batch_calls, nextId>>

\* ------------------------------------------------------------- batch_embed
BatchLimits == {1, 100}

\* SELECT id, rowid, content FROM memories WHERE has_embedding = 0 AND
\* status = 'active' LIMIT ?: the row sets the query may give.
BatchRows(db, limit) ==
  { {[id |-> db.memories[k].id, rowid |-> k, content |-> db.memories[k].content]
       : k \in S}
    : S \in Limited({k \in DOMAIN db.memories :
                       /\ db.memories[k].has_embedding = 0
                       /\ db.memories[k].status = "active"}, limit) }

\* The transaction without its UPDATE of has_embedding.
RECURSIVE BatchWrite_NoFlag(_, _)
BatchWrite_NoFlag(db, rows) ==
  IF rows = {} THEN db
  ELSE LET r == CHOOSE x \in rows : TRUE
           vec == [k \in DOMAIN db.vec_memories \cup {r.rowid} |->
                     IF k = r.rowid THEN generateEmbedding(r.content)
                                    ELSE db.vec_memories[k]]
       IN BatchWrite_NoFlag(
            IF r.rowid \in DOMAIN db.vec_memories THEN db
            ELSE [db EXCEPT !.vec_memories = vec],
            rows \ {r})

\* The transaction of batch_embed: for each selected row, insert its vector
\* (which throws when vec_memories holds that rowid already, and the row is
\* then skipped) and set the flag of the memory with its id.
RECURSIVE BatchWrite(_, _)
BatchWrite(db, rows) ==
  IF rows = {} THEN db
  ELSE LET r == CHOOSE x \in rows : TRUE
           vec == [k \in DOMAIN db.vec_memories \cup {r.rowid} |->
                     IF k = r.rowid THEN generateEmbedding(r.content)
                                    ELSE db.vec_memories[k]]
       IN BatchWrite(
            IF r.rowid \in DOMAIN db.vec_memories THEN db
            ELSE UpdateMemory([db EXCEPT !.vec_memories = vec], r.id,
                              [has_embedding |-> 1]),
            rows \ {r})

\* batch_embed up to await generateEmbeddings (no await when no row lacks
\* an embedding). The suspended call keeps, next to the rows it selected,
\* what the tool call before it had returned.
batch_embed(limit) ==
  /\ opCount < MaxOps
  /\ UNCHANGED <<searchVars, daily_log_items>>
  /\ \E rows \in BatchRows(Tables, limit) :
       IF rows = {} THEN
         /\ Called("batch_embed", NoId, "OK", NoId)
         /\ UNCHANGED <<memories, memories_fts, vec_memories, links, memory_history,
                        extractorPromise, pipelineCalls, embed_tasks, smart_calls, batch_calls, nextId>>
       ELSE
         /\ Awaiting("batch_embed")
         /\ CallGetExtractor
         /\ batch_calls' = batch_calls \cup {[call |-> opCount + 1, rows |-> rows,
                                               prior |-> lastOp]}
         /\ UNCHANGED <<memories, memories_fts, vec_memories, links, memory_history,
                        embed_tasks, smart_calls, nextId>>

\* batch_embed after the await.
batch_embed_resume(c) ==
  /\ UNCHANGED <<searchVars, daily_log_items>>
  /\ c \in batch_calls
  /\ extractorPromise \in {"ready", "failed"}
  /\ batch_calls' = batch_calls \ {c}
  /\ IF extractorPromise = "failed" THEN
       /\ Returned("batch_embed", "OK", NoId, {})
       /\ UNCHANGED <<memories, memories_fts, vec_memories, links, memory_history>>
     ELSE
       /\ Returned("batch_embed", "OK", NoId,
                   {r.id : r \in {x \in c.rows : x.rowid \notin DOMAIN vec_memories}})
       /\ \E db \in {BatchWrite(Tables, c.rows)} : Commit(db)
  /\ UNCHANGED <<extractorPromise, pipelineCalls, embed_tasks, smart_calls, nextId>>

\* -------------------------------------------------------------- set_config
\* The values set_config is called with, and parseFloat of each, in tenths.
ConfigValues == {"0.9"}

ParseFloat(value) == CASE value = "0.9" -> 9 [] value = "0.5" -> 5 [] OTHER -> 0

\* set_config on a key retrieval.<name>_weight: INSERT OR REPLACE INTO config
\* of core.db, whatever database is searched later.
set_config(key, value) ==
  /\ opCount < MaxOps
  /\ Called("set_config", NoId, "OK", NoId)
  /\ \E old \in {config["core"]} :
       config' = [config EXCEPT !["core"] =
                    [f \in DOMAIN old \cup {key} |-> IF f = key THEN value ELSE old[f]]]
  /\ UNCHANGED <<memories, memories_fts, vec_memories, links, memory_history,
                 extractorPromise, pipelineCalls, embed_tasks, smart_calls, batch_calls, nextId,
                 search_calls, lastSearch, query_log, daily_log_items>>

\* ----------------------------------------------------------- hybrid_search
\* Weights are in tenths, scores in ten-thousandths.
DefaultWeights == [vector |-> 4, fts |-> 3, recency |-> 2, importance |-> 1]

RRF_K == 60

\* limit is undefined in the call.
NoLimit == -1

DefaultLimit == 20

MaxResults(limit) == IF limit = NoLimit THEN DefaultLimit ELSE limit

\* w = {...DEFAULT_WEIGHTS, ...weights}; then every config row of the
\* searched database whose field passes !weights?.[field] overwrites w[field].
ResolveWeights(overrides, cfg) ==
  [f \in WeightNames |->
     IF f \in DOMAIN cfg /\ (f \notin DOMAIN overrides \/ overrides[f] = 0)
       THEN ParseFloat(cfg[f])
     ELSE IF f \in DOMAIN overrides THEN overrides[f]
     ELSE DefaultWeights[f]]

\* The tables of the database a search is made on.
TablesOf(dbName) ==
  IF dbName = "core" THEN Tables
  ELSE [memories |-> [k \in {} |-> FoundingRow], memories_fts |-> {},
        vec_memories |-> [k \in {} |-> generateEmbedding({})], links |-> {},
        memory_history |-> <<>>]

\* ORDER BY distance: b is strictly nearer to q than a.
VecBefore(vec, q, b, a) == ~AsNear(q, vec[a], vec[b])

\* vectorResults: rowid -> 1-based rank among the k nearest, for each order
\* the KNN query may give; vectors at the same distance come in either order.
VectorResults(vec, q, k) ==
  LET orders == {r \in [DOMAIN vec -> 1..Cardinality(DOMAIN vec)] :
                   /\ \A a, b \in DOMAIN vec : a # b => r[a] # r[b]
                   /\ \A a, b \in DOMAIN vec : VecBefore(vec, q, b, a) => r[b] < r[a]}
  IN {[a \in {x \in DOMAIN vec : r[x] <= k} |-> r[a]] : r \in orders}

\* The length bm25 normalizes by: the number of indexed tokens of the row.
FtsLength(db, k) ==
  Cardinality(FtsTokens(CHOOSE e \in db.memories_fts : e.rowid = k))

\* ftsResults: rowid -> 1-based rank among the matching active rows, ORDER BY
\* rank LIMIT k.  For equal term counts bm25 ranks the shorter row first;
\* equal ranks come in rowid order.
FtsResults(db, query, k) ==
  LET rows == FtsActive(db, query)
      rank == [a \in rows |->
                 1 + Cardinality({b \in rows \ {a} :
                        \/ FtsLength(db, b) < FtsLength(db, a)
                        \/ (FtsLength(db, b) = FtsLength(db, a) /\ b < a)})]
  IN [a \in {x \in rows : rank[x] <= k} |-> rank[a]]

\* C17 mutant: the rank of a list counted from 0.
Score_ZeroBased(w, vectorRank, ftsRank, row) ==
  LET dv == IF vectorRank = 0 THEN 1 ELSE RRF_K + vectorRank - 1
      df == IF ftsRank = 0 THEN 1 ELSE RRF_K + ftsRank - 1
      nv == IF vectorRank = 0 THEN 0 ELSE 1000 * w.vector
      nf == IF ftsRank = 0 THEN 0 ELSE 1000 * w.fts
      direct == 100 * w.recency * row.decay_score + 200 * w.importance * row.importance
  IN (2 * (nv * df + nf * dv + direct * dv * df) + dv * df) \div (2 * dv * df)

\* Math.round(finalScore * 10000), finalScore = w.vector / (RRF_K + vectorRank)
\* + w.fts / (RRF_K + ftsRank) + w.recency * decay_score + w.importance *
\* (importance / 5); a rank of 0 stands for a row that is not in the list.
Score(w, vectorRank, ftsRank, row) ==
  LET dv == IF vectorRank = 0 THEN 1 ELSE RRF_K + vectorRank
      df == IF ftsRank = 0 THEN 1 ELSE RRF_K + ftsRank
      nv == IF vectorRank = 0 THEN 0 ELSE 1000 * w.vector
      nf == IF ftsRank = 0 THEN 0 ELSE 1000 * w.fts
      direct == 100 * w.recency * row.decay_score + 200 * w.importance * row.importance
  IN (2 * (nv * df + nf * dv + direct * dv * df) + dv * df) \div (2 * dv * df)

\* C18 mutant: the status filter left out.
IsReturnable_Any(row) == TRUE

\* if (searchType === "memory" && row.status !== "active") continue
IsReturnable(row) == row.status = "active"

\* One element of allResults.
Scoring(rowid, row, score, vectorRank, ftsRank) ==
  [id |-> row.id, rowid |-> rowid, score |-> score, vector_rank |-> vectorRank,
   fts_rank |-> ftsRank, decay_score |-> row.decay_score,
   importance |-> row.importance, updated_at |-> row.updated_at]

\* allResults: the candidates of both lists that are rows of memories,
\* scored, those that are not active left out.
Scored(db, w, vr, query, k) ==
  LET fr == FtsResults(db, query, k)
      cand == (DOMAIN vr \cup DOMAIN fr) \cap DOMAIN db.memories
  IN {Scoring(a, db.memories[a],
              Score(w, IF a \in DOMAIN vr THEN vr[a] ELSE 0,
                       IF a \in DOMAIN fr THEN fr[a] ELSE 0, db.memories[a]),
              IF a \in DOMAIN vr THEN vr[a] ELSE 0,
              IF a \in DOMAIN fr THEN fr[a] ELSE 0)
        : a \in {x \in cand : IsReturnable(db.memories[x])}}

\* allResults.sort((a, b) => b.score - a.score).slice(0, maxResults): the
\* sort is stable and the rows were fetched in rowid order.
TopResults(S, n) ==
  LET pos == [e \in S |->
                1 + Cardinality({x \in S : \/ x.score > e.score
                                           \/ (x.score = e.score /\ x.rowid < e.rowid)})]
      len == IF Cardinality(S) < n THEN Cardinality(S) ELSE n
  IN [i \in 1..len |-> CHOOSE e \in S : pos[e] = i]

\* The limits and weight overrides the searches are called with.
Limits == {1, NoLimit}

Overrides == {EmptyConfig, [vector |-> 0, fts |-> 0], [vector |-> 5]}

\* The queries of hybrid_search: those of search, and one no memory contains.
HybridQueries == Queries \cup {{"theme"}}

\* The queries of semantic_search: those of search, and the text of a memory.
SemanticQueries == Queries \cup {{"dark", "mode"}}

\* hybrid_search up to await generateEmbedding: the weights are resolved.
hybrid_search(dbName, query, limit, overrides) ==
  /\ opCount < MaxOps
  /\ Awaiting("hybrid_search")
  /\ CallGetExtractor
  /\ search_calls' = search_calls \cup
       {[op |-> "hybrid_search", call |-> opCount + 1, db |-> dbName,
         query |-> query, limit |-> limit, overrides |-> overrides,
         weights |-> ResolveWeights(overrides, config[dbName])]}
  /\ UNCHANGED <<memories, memories_fts, vec_memories, links, memory_history,
                 embed_tasks, smart_calls, batch_calls, nextId, config, lastSearch,
                 query_log, daily_log_items>>

\* The error text of a search whose query embedding failed: hybrid_search
\* adds "Try running batch_embed first to download the model."
ErrorHint(op) == IF op = "hybrid_search" THEN "batch_embed" ELSE "none"

\* What a search call returns.
Answer(c, res, results, scored) ==
  [op |-> c.op, db |-> c.db, query |-> c.query, limit |-> c.limit,
   overrides |-> c.overrides, weights |-> c.weights, res |-> res,
   results |-> results, scored |-> scored,
   hint |-> IF res = "ERROR" THEN ErrorHint(c.op) ELSE "none"]

\* C23 mutant: the access tracking runs although the embedding failed.
SearchWrites_OnError(db, failed, ids) == UpdateAccess(db, ids)

\* The statements of a search on the memories: none when generateEmbedding
\* threw (the handler returns from its catch), else the access tracking.
SearchWrites(db, failed, ids) == IF failed THEN db ELSE UpdateAccess(db, ids)

\* C24 mutant: the row is inserted by the call and again by a retry.
logQuery_Twice(log, entry, throws) == Append(Append(log, entry), entry)

\* logQuery: INSERT INTO query_log in a try whose catch is empty.
logQuery(log, entry, throws) == IF throws THEN log ELSE Append(log, entry)

\* A search after its await: the error return when the embedding failed,
\* else the access tracking of the returned memories, logQuery (whose INSERT
\* may throw) and the results.
SearchReturn(c, scored, top) ==
  /\ c \in search_calls
  /\ search_calls' = search_calls \ {c}
  /\ extractorPromise \in {"ready", "failed"}
  /\ \E ids \in {{top[i].id : i \in DOMAIN top}} :
     \E db \in {SearchWrites(Tables, extractorPromise = "failed", ids)} :
       /\ Commit(db)
       /\ IF extractorPromise = "failed" THEN
            /\ Returned(c.op, "ERROR", NoId, {})
            /\ lastSearch' = Answer(c, "ERROR", <<>>, {})
            /\ UNCHANGED query_log
          ELSE
            /\ Returned(c.op, "OK", NoId, ids)
            /\ lastSearch' = Answer(c, "OK", top, scored)
            /\ \E throws \in BOOLEAN :
                 query_log' = logQuery(query_log,
                                [db |-> c.db, query_source |-> c.op,
                                 result_count |-> Len(top),
                                 result_ids |-> [i \in DOMAIN top |-> top[i].id]],
                                throws)
  /\ UNCHANGED <<extractorPromise, pipelineCalls, embed_tasks, smart_calls, batch_calls, nextId,
                 config, daily_log_items>>

hybrid_search_resume(c) ==
  /\ c \in search_calls
  /\ c.op = "hybrid_search"
  /\ \E vr \in VectorResults(TablesOf(c.db).vec_memories, generateEmbedding(c.query),
                              3 * MaxResults(c.limit)) :
     \E scored \in {Scored(TablesOf(c.db), c.weights, vr, c.query,
                            3 * MaxResults(c.limit))} :
       SearchReturn(c, scored, TopResults(scored, MaxResults(c.limit)))

\* --------------------------------------------------------- semantic_search
\* The active rows among the maxResults nearest vectors, nearest first.
SemanticResults(db, vr) ==
  LET rows == {a \in DOMAIN vr \cap DOMAIN db.memories :
                 db.memories[a].status = "active"}
      S == {Scoring(a, db.memories[a], 0, vr[a], 0) : a \in rows}
      pos == [e \in S |-> 1 + Cardinality({x \in S : x.vector_rank < e.vector_rank})]
  IN [i \in 1..Cardinality(S) |-> CHOOSE e \in S : pos[e] = i]

semantic_search(dbName, query, limit) ==
  /\ opCount < MaxOps
  /\ Awaiting("semantic_search")
  /\ CallGetExtractor
  /\ search_calls' = search_calls \cup
       {[op |-> "semantic_search", call |-> opCount + 1, db |-> dbName,
         query |-> query, limit |-> limit, overrides |-> EmptyConfig,
         weights |-> EmptyConfig]}
  /\ UNCHANGED <<memories, memories_fts, vec_memories, links, memory_history,
                 embed_tasks, smart_calls, batch_calls, nextId, config, lastSearch,
                 query_log, daily_log_items>>

semantic_search_resume(c) ==
  /\ c \in search_calls
  /\ c.op = "semantic_search"
  /\ \E vr \in VectorResults(TablesOf(c.db).vec_memories, generateEmbedding(c.query),
                              MaxResults(c.limit)) :
     \E top \in {SemanticResults(TablesOf(c.db), vr)} :
       SearchReturn(c, {top[i] : i \in DOMAIN top}, top)

\* ------------------------------------------------------------ get_memories
GetLimit == 50

\* ORDER BY importance DESC, updated_at DESC: a comes before b.
ListedBefore(a, b) ==
  \/ a.importance > b.importance
  \/ (a.importance = b.importance /\ a.updated_at > b.updated_at)

\* SELECT * FROM memories WHERE status = 'active' [AND category = ?] ORDER BY
\* importance DESC, updated_at DESC LIMIT ?: the row sets the query may give.
GetRows(db, category, limit) ==
  LET rows == {k \in DOMAIN db.memories :
                 /\ db.memories[k].status = "active"
                 /\ (category = "null" \/ db.memories[k].category = category)}
      n == IF limit = NoLimit THEN GetLimit ELSE limit
  IN IF Cardinality(rows) <= n THEN {rows}
     ELSE {S \in SUBSET rows :
             /\ Cardinality(S) = n
             /\ \A a \in S, b \in rows \ S :
                  ~ListedBefore(db.memories[b], db.memories[a])}

\* get_memories: the query, and the rows as its answer; it writes nothing.
get_memories(category, limit) ==
  /\ opCount < MaxOps
  /\ \E rows \in GetRows(Tables, category, limit) :
       /\ opCount' = opCount + 1
       /\ lastOp' = [op |-> "get_memories", id |-> NoId, res |-> "OK", new |-> NoId,
                     ids |-> {memories[k].id : k \in rows}]
  /\ UNCHANGED <<memories, memories_fts, vec_memories, links, memory_history,
                 extractorPromise, pipelineCalls, embed_tasks, smart_calls, batch_calls, nextId,
                 searchVars, daily_log_items>>

\* --------------------------------------------- specification of retrieval
\* A second memory saved after SavedRow, with the same importance and not
\* embedded (save_memory does not embed).
SecondRow ==
  [id |-> FoundingId + 2, content |-> {"dark"}, category |-> "fact",
   subcategory |-> "null", tags |-> "null", source |-> "claude_code",
   status |-> "active", superseded_by |-> NoId, importance |-> 3,
   metadata |-> "null", has_embedding |-> 0, access_count |-> 0,
   decay_score |-> 10, updated_at |-> 2, last_accessed_at |-> Never]

\* The retrieval tools run on a database that holds memories: the seeded one
\* with one embedded memory, or with a second memory saved after it.
SearchInit ==
  /\ \/ /\ memories = [k \in {1, 2} |-> IF k = 1 THEN FoundingRow ELSE SavedRow]
        /\ memories_fts = {FtsEntry(1, FoundingRow), FtsEntry(2, SavedRow)}
        /\ nextId = FoundingId + 2
     \/ /\ memories = [k \in {1, 2, 3} |->
                         IF k = 1 THEN FoundingRow
                         ELSE IF k = 2 THEN SavedRow ELSE SecondRow]
        /\ memories_fts = {FtsEntry(1, FoundingRow), FtsEntry(2, SavedRow),
                           FtsEntry(3, SecondRow)}
        /\ nextId = FoundingId + 3
  /\ vec_memories = [k \in {2} |-> generateEmbedding(SavedRow.content)]
  /\ memory_history = <<[memory_id |-> SavedRow.id, operation |-> "created",
                         content_before |-> EmptyContent,
                         content_after |-> SavedRow.content]>>
  /\ InitOther

\* The retrieval tools, set_config, and the writes that retire or remove a
\* memory a search could return.
SearchNext ==
  \/ \E q \in HybridQueries, l \in Limits, o \in Overrides :
       hybrid_search("core", q, l, o)
  \/ \E o \in Overrides : hybrid_search("therapy", {"dark"}, NoLimit, o)
  \/ \E c \in search_calls : hybrid_search_resume(c)
  \/ \E q \in SemanticQueries, l \in Limits : semantic_search("core", q, l)
  \/ \E c \in search_calls : semantic_search_resume(c)
  \/ \E n \in BatchLimits : batch_embed(n)
  \/ \E c \in batch_calls : batch_embed_resume(c)
  \/ \E key \in {"vector", "recency"}, v \in ConfigValues : set_config(key, v)
  \/ \E cat \in {"null", "fact"}, l \in Limits : get_memories(cat, l)
  \/ \E id \in Ids : supersede_memory(id, {"dark"}, FALSE, 0)
  \/ \E id \in Ids : handle_correction(id, EmptyContent, {"dark", "mode"}, "null", 0)
  \/ \E id \in Ids : delete_memory(id)
  \/ ExtractorLoaded
  \/ ExtractorFailed
  \/ \E t \in embed_tasks : autoEmbedResume(t)
  \/ \E t \in embed_tasks : autoEmbedCatch(t)

SearchSpec == SearchInit /\ [][SearchNext]_vars

\* ---------------------------------------------------------- specification
\* The inputs of a call whose transaction is rolled back leave no trace, so
\* the calls with a failing statement are made with one input each.
Next ==
  \/ \E i \in SaveInputs : save_memory(i.content, i.draft)
  \/ \E id \in Ids, p \in Patches : update_memory(id, p)
  \/ \E id \in Ids : delete_memory(id)
  \/ \E id \in Ids, c \in Contents : supersede_memory(id, c, FALSE, 0)
  \/ \E id \in Ids : supersede_memory(id, {"dark"}, TRUE, 0)
  \/ \E id \in Ids, f \in 1..3 : supersede_memory(id, {"dark"}, FALSE, f)
  \/ \E id \in Ids, cat \in {"null", "fact"} :
       handle_correction(id, EmptyContent, {"dark", "mode"}, cat, 0)
  \/ \E id \in Ids, f \in 1..5 :
       handle_correction(id, EmptyContent, {"dark", "mode"}, "null", f)
  \/ \E q \in Contents \cup {EmptyContent} :
       handle_correction(NoId, q, {"dark"}, "null", 0)
  \/ \E f \in 1..2 : handle_correction(NoId, EmptyContent, {"dark"}, "null", f)
  \/ \E i \in SmartInputs : smart_save_memory_force(i.content, i.draft, 0)
  \/ \E f \in 1..2 :
       smart_save_memory_force({"dark"}, [category |-> "fact", is_correction |-> FALSE], f)
  \/ \E i \in SmartInputs : smart_save_memory(i.content, i.draft)
  \/ \E c \in smart_calls, f \in 0..2 : smart_save_resume(c, f)
  \/ \E i \in {1, 2} : promote_daily_item(i, "fact", 0)
  \/ \E f \in 1..3 : promote_daily_item(1, "fact", f)
  \/ \E q \in Queries : search(q)
  \/ \E n \in BatchLimits : batch_embed(n)
  \/ \E c \in batch_calls : batch_embed_resume(c)
  \/ ExtractorLoaded
  \/ ExtractorFailed
  \/ \E t \in embed_tasks : autoEmbedResume(t)
  \/ \E t \in embed_tasks : autoEmbedCatch(t)

Spec == Init /\ [][Next]_vars

\* ------------------------------------------------------------------ claims
\* The immutability predicate as the specification states it.
ImmutableRecord(r) ==
  \/ r.source = "founding"
  \/ r.category = "hard_constraint"
  \/ (r.category = "value" /\ r.subcategory = "core")
  \/ r.metadata = "immutable"

StoredIds == {memories[k].id : k \in DOMAIN memories}

\* This step is a call of tool op that ran to its return.
CallOf(op) == opCount' = opCount + 1 /\ lastOp'.op = op

\* The memory with this id is stored before and after the step and its
\* status differs.
StatusChanged(id) ==
  /\ Exists(memories, id)
  /\ Exists(memories', id)
  /\ Get(memories', id).status # Get(memories, id).status

\* C1: update_memory, supersede_memory and delete_memory on a memory for
\* which the immutability predicate holds each return BLOCKED and leave
\* memories, links, memory_history and vec_memories as they were.
C1_ImmutableBlocked ==
  [][ \A op \in {"update_memory", "supersede_memory", "delete_memory"} :
        ( /\ CallOf(op)
          /\ Exists(memories, lastOp'.id)
          /\ ImmutableRecord(Get(memories, lastOp'.id)) )
        => /\ lastOp'.res = "BLOCKED"
           /\ UNCHANGED <<memories, links, memory_history, vec_memories>> ]_vars

\* C1 witness: delete_memory was blocked on a memory that a tool created and
\* that is immutable by its metadata alone.
C1_Witness ==
  /\ lastOp.op = "delete_memory"
  /\ lastOp.res = "BLOCKED"
  /\ Exists(memories, lastOp.id)
  /\ Get(memories, lastOp.id).source = "claude_code"
  /\ Get(memories, lastOp.id).category = "fact"
  /\ Get(memories, lastOp.id).metadata = "immutable"

\* C2: handle_correction that targets a memory immutable by any of the four
\* triggers fails as blocked and writes nothing: the memory keeps its status
\* and superseded_by, and no memory, link or history row is created.
C2_CorrectionBlockedOnImmutable ==
  [][ ( /\ CallOf("handle_correction")
        /\ Exists(memories, lastOp'.id)
        /\ ImmutableRecord(Get(memories, lastOp'.id)) )
      => /\ lastOp'.res = "BLOCKED"
         /\ UNCHANGED <<memories, links, memory_history>> ]_vars

\* C3 as stated: once the status of a memory is not 'active', no step makes
\* it 'active' again.
C3_NeverReactivated ==
  [][ \A id \in StoredIds :
        (Get(memories, id).status # "active" /\ Exists(memories', id))
        => Get(memories', id).status # "active" ]_vars

\* C3 amended: the only step that returns a memory to 'active' is an
\* update_memory call on it whose patch sets status to 'active'; save,
\* supersede, handle_correction, smart_save, search and the embedding steps
\* never do.
C3_OnlyUpdateReactivates ==
  [][ \A id \in StoredIds :
        ( /\ Get(memories, id).status # "active"
          /\ Exists(memories', id)
          /\ Get(memories', id).status = "active" )
        => /\ CallOf("update_memory")
           /\ lastOp'.id = id
           /\ lastOp'.res = "OK"
           /\ \E p \in Patches :
                /\ "status" \in DOMAIN p
                /\ p.status = "active"
                /\ memories' = UpdateMemory(Tables, id, UpdateSet(p)).memories ]_vars

\* C3 witness: a memory that handle_correction or supersede_memory had
\* retired (it carries superseded_by) is active again.
C3_Witness ==
  \E k \in DOMAIN memories :
    /\ memories[k].status = "active"
    /\ memories[k].superseded_by # NoId
    /\ lastOp.op = "update_memory"
    /\ lastOp.id = memories[k].id

\* C4: supersede_memory and handle_correction change the status of a memory
\* only if it is 'active': a superseded memory is not superseded again or
\* archived, an archived one is not superseded.
C4_OnlyActiveIsRetired ==
  [][ \A op \in {"supersede_memory", "handle_correction"} :
        CallOf(op) =>
          \A id \in StoredIds :
            /\ StatusChanged(id) => Get(memories, id).status = "active"
            /\ (Exists(memories', id) /\ Get(memories, id).status # "active")
                 => Get(memories', id).superseded_by = Get(memories, id).superseded_by
      ]_vars

\* C5 as stated: superseded_by is non-null only if status = 'superseded'.
C5_SupersededByOnlyIfSuperseded ==
  \A k \in DOMAIN memories :
    memories[k].superseded_by # NoId => memories[k].status = "superseded"

\* The superseded_by of the memory with this id before the step (NULL for a
\* memory the step creates).
SupersededByBefore(id) ==
  IF Exists(memories, id) THEN Get(memories, id).superseded_by ELSE NoId

\* C5 amended: superseded_by is written only by supersede_memory, together
\* with status = 'superseded', and by handle_correction, together with
\* status = 'archived', and then names the memory the call created; no other
\* step sets, changes or clears it.
C5_SupersededByWrittenOnRetire ==
  [][ \A k \in DOMAIN memories' :
        memories'[k].superseded_by # SupersededByBefore(memories'[k].id)
        => /\ opCount' = opCount + 1
           /\ lastOp'.id = memories'[k].id
           /\ lastOp'.new # NoId
           /\ memories'[k].superseded_by = lastOp'.new
           /\ \/ lastOp'.op = "supersede_memory" /\ memories'[k].status = "superseded"
              \/ lastOp'.op = "handle_correction" /\ memories'[k].status = "archived"
      ]_vars

\* C5 witness: handle_correction has archived a memory, which carries
\* superseded_by.
C5_Witness ==
  /\ lastOp.op = "handle_correction"
  /\ lastOp.res = "corrected"
  /\ Exists(memories, lastOp.id)
  /\ Get(memories, lastOp.id).status = "archived"
  /\ Get(memories, lastOp.id).superseded_by = lastOp.new

\* C6: supersede_memory on a stored mutable memory performs all of its three
\* writes or none: either the new active memory, the old one superseded and
\* pointing to it, and the 'supersedes' link new -> old are all there, or no
\* table has changed; the old memory is never removed.
C6_SupersedeAllOrNothing ==
  [][ ( /\ CallOf("supersede_memory")
        /\ Exists(memories, lastOp'.id)
        /\ ~ImmutableRecord(Get(memories, lastOp'.id)) )
      => /\ Exists(memories', lastOp'.id)
         /\ \/ /\ lastOp'.res = "OK"
               /\ ~Exists(memories, lastOp'.new)
               /\ Exists(memories', lastOp'.new)
               /\ Get(memories', lastOp'.new).status = "active"
               /\ Get(memories', lastOp'.id).status = "superseded"
               /\ Get(memories', lastOp'.id).superseded_by = lastOp'.new
               /\ links' = links \cup
                    {[source_id |-> lastOp'.new, target_id |-> lastOp'.id,
                      relationship |-> "supersedes"]}
               /\ Cardinality(DOMAIN memories') = Cardinality(DOMAIN memories) + 1
            \/ /\ lastOp'.res = "THROWN"
               /\ UNCHANGED <<memories, memories_fts, links, memory_history,
                              vec_memories>> ]_vars

\* C6 witness: a statement of the transaction of supersede_memory threw.
C6_Witness ==
  /\ lastOp.op = "supersede_memory"
  /\ lastOp.res = "THROWN"
  /\ Exists(memories, lastOp.id)
  /\ ~ImmutableRecord(Get(memories, lastOp.id))

\* C7: a vec_memories entry exists for rowid k if and only if a memory with
\* rowid k exists and has has_embedding = 1.
C7_VectorIffEmbedded ==
  /\ \A k \in DOMAIN vec_memories :
       k \in DOMAIN memories /\ memories[k].has_embedding = 1
  /\ \A k \in DOMAIN memories :
       memories[k].has_embedding = 1 => k \in DOMAIN vec_memories

\* C8: when save_memory has returned a stored record (its content is not
\* empty), the computation of its embedding is under way without a further
\* tool call: an autoEmbed for the new memory is in flight.
C8_SaveStartsEmbedding ==
  (lastOp.op = "save_memory" /\ lastOp.res = "OK" /\ Exists(memories, lastOp.new)
     /\ Get(memories, lastOp.new).content # EmptyContent)
  => \E t \in embed_tasks : t.id = lastOp.new

\* C9: once no embedding step for a memory is pending, has_embedding = 1
\* means that its vector was computed from the content it has now.
C9_VectorOfCurrentContent ==
  \A k \in DOMAIN memories :
    ( /\ memories[k].has_embedding = 1
      /\ k \in DOMAIN vec_memories
      /\ ~\E t \in embed_tasks : t.id = memories[k].id )
    => vec_memories[k] = generateEmbedding(memories[k].content)

\* C10: memories_fts holds exactly one entry per memories row, under the
\* rowid of the row and with its current content, category and tags.
C10_FtsInSync ==
  /\ \A k \in DOMAIN memories :
       \E e \in memories_fts :
         /\ e.rowid = k
         /\ e.content = memories[k].content
         /\ e.category = memories[k].category
         /\ e.tags = memories[k].tags
  /\ \A e \in memories_fts : e.rowid \in DOMAIN memories
  /\ \A e1, e2 \in memories_fts : e1.rowid = e2.rowid => e1 = e2

\* C10 witness: update_memory has changed the tags of a row and the index
\* entry of the row carries the new tags.
C10_Witness ==
  /\ lastOp.op = "update_memory"
  /\ lastOp.res = "OK"
  /\ Exists(memories, lastOp.id)
  /\ Get(memories, lastOp.id).tags = "ui"
  /\ [rowid |-> RowidOf(memories, lastOp.id),
      content |-> Get(memories, lastOp.id).content,
      category |-> Get(memories, lastOp.id).category, tags |-> "ui"] \in memories_fts

\* The rows of memories other than those with an id in ids are the same
\* before and after the step.
OtherRowsUnchanged(ids) ==
  \A k \in DOMAIN memories :
    memories[k].id \notin ids => (k \in DOMAIN memories' /\ memories'[k] = memories[k])

\* The step adds exactly one row to memories, with this id.
OneRowAdded(id) ==
  /\ ~Exists(memories, id)
  /\ Exists(memories', id)
  /\ Cardinality(DOMAIN memories') = Cardinality(DOMAIN memories) + 1

\* The step appends exactly these operations for these memories to
\* memory_history and leaves the rows it had as they were.
HistoryAppended(entries) ==
  /\ Len(memory_history') = Len(memory_history) + Len(entries)
  /\ SubSeq(memory_history', 1, Len(memory_history)) = memory_history
  /\ \A i \in 1..Len(entries) :
       /\ memory_history'[Len(memory_history) + i].memory_id = entries[i][1]
       /\ memory_history'[Len(memory_history) + i].operation = entries[i][2]

\* Memory k is active, has this content and was added with a 'created'
\* history row for this content.
AddedWithContent(k, content) ==
  /\ memories[k].status = "active"
  /\ memories[k].content = content
  /\ \E i \in 1..Len(memory_history) :
       /\ memory_history[i].memory_id = memories[k].id
       /\ memory_history[i].operation = "created"
       /\ memory_history[i].content_after = content

\* This step is a call of smart_save_memory or the return of one.
SmartSaveStep ==
  /\ lastOp'.op = "smart_save_memory"
  /\ (opCount' = opCount + 1 \/ smart_calls' # smart_calls)

\* C11: when a smart_save_memory call without force_add returns and an
\* active memory that was added with the same (non-empty) content is stored,
\* the call returns needs_decision and lists that memory, whatever the
\* embedding of that memory has done so far.
C11_SecondSaveNeedsDecision ==
  [][ \A c \in smart_calls :
        ( /\ c \notin smart_calls'
          /\ c.content # EmptyContent
          /\ \E k \in DOMAIN memories : AddedWithContent(k, c.content) )
        => /\ lastOp'.res = "needs_decision"
           /\ \A k \in DOMAIN memories :
                AddedWithContent(k, c.content) => memories[k].id \in lastOp'.ids ]_vars

\* C12: smart_save_memory writes if and only if it returns 'added': then it
\* has added exactly one memory and exactly one 'created' history row for it;
\* with any other outcome memories, memory_history and vec_memories are as
\* they were.
C12_SmartSaveWritesIffAdded ==
  [][ SmartSaveStep =>
        IF lastOp'.res = "added"
          THEN /\ OneRowAdded(lastOp'.new)
               /\ OtherRowsUnchanged({})
               /\ HistoryAppended(<< <<lastOp'.new, "created">> >>)
               /\ UNCHANGED vec_memories
          ELSE UNCHANGED <<memories, memory_history, vec_memories>> ]_vars

\* C12 witness: a smart_save_memory call has returned needs_decision with a
\* similar memory.
C12_Witness ==
  /\ lastOp.op = "smart_save_memory"
  /\ lastOp.res = "needs_decision"
  /\ lastOp.ids # {}
  /\ smart_calls = {}

\* The correction memory a handle_correction step created.
CorrectionCreated ==
  /\ OneRowAdded(lastOp'.new)
  /\ Get(memories', lastOp'.new).importance = 5
  /\ Get(memories', lastOp'.new).decay_score = 10
  /\ Get(memories', lastOp'.new).status = "active"

\* C13 as stated: every handle_correction call that returns 'corrected' has
\* archived exactly one stored memory, created the correction, linked it
\* with 'corrects' and written two history rows.
C13_CorrectedArchivesOne ==
  [][ (CallOf("handle_correction") /\ lastOp'.res = "corrected")
      => /\ Exists(memories, lastOp'.id)
         /\ Get(memories', lastOp'.id).status = "archived"
         /\ CorrectionCreated
         /\ [source_id |-> lastOp'.new, target_id |-> lastOp'.id,
             relationship |-> "corrects"] \in links'
         /\ HistoryAppended(<< <<lastOp'.id, "corrected">>,
                               <<lastOp'.new, "created">> >>) ]_vars

\* C13 amended: a handle_correction call that found the wrong memory and
\* returns 'corrected' has archived it, created the correction (importance
\* 5, decay_score 1.0), linked it with 'corrects' and written two history
\* rows; one that found no wrong memory returns 'corrected' as well and has
\* only created the correction and its 'created' history row; a call that
\* fails has written nothing.
C13_CorrectionAtomic ==
  [][ CallOf("handle_correction") =>
        IF lastOp'.res = "corrected" /\ lastOp'.id # NoId
          THEN /\ Exists(memories, lastOp'.id)
               /\ Get(memories', lastOp'.id).status = "archived"
               /\ Get(memories', lastOp'.id).superseded_by = lastOp'.new
               /\ OtherRowsUnchanged({lastOp'.id})
               /\ CorrectionCreated
               /\ links' = links \cup {[source_id |-> lastOp'.new,
                                        target_id |-> lastOp'.id,
                                        relationship |-> "corrects"]}
               /\ HistoryAppended(<< <<lastOp'.id, "corrected">>,
                                     <<lastOp'.new, "created">> >>)
        ELSE IF lastOp'.res = "corrected"
          THEN /\ OtherRowsUnchanged({})
               /\ CorrectionCreated
               /\ UNCHANGED links
               /\ HistoryAppended(<< <<lastOp'.new, "created">> >>)
        ELSE UNCHANGED <<memories, memories_fts, links, memory_history,
                         vec_memories>> ]_vars

\* C13 witness: handle_correction has returned 'corrected' without a wrong
\* memory: nothing is archived and there is no 'corrects' link.
C13_Witness ==
  /\ lastOp.op = "handle_correction"
  /\ lastOp.res = "corrected"
  /\ lastOp.id = NoId
  /\ Exists(memories, lastOp.new)
  /\ \A l \in links : l.source_id # lastOp.new

\* C14: memory_history only grows: a step leaves the rows it had as they
\* were, and every row it appends documents a mutation of the same step: a
\* 'created' or 'promoted' row the insertion of its memory, a 'corrected' row
\* the archival of its memory.
C14_HistoryAppendOnly ==
  [][ /\ Len(memory_history') >= Len(memory_history)
      /\ SubSeq(memory_history', 1, Len(memory_history)) = memory_history
      /\ \A i \in (Len(memory_history) + 1)..Len(memory_history') :
           LET h == memory_history'[i] IN
             \/ /\ h.operation \in {"created", "promoted"}
                /\ ~Exists(memories, h.memory_id)
                /\ Exists(memories', h.memory_id)
                /\ Get(memories', h.memory_id).content = h.content_after
             \/ /\ h.operation = "corrected"
                /\ Exists(memories, h.memory_id)
                /\ Get(memories', h.memory_id).status = "archived"
                /\ ~Exists(memories, Get(memories', h.memory_id).superseded_by)
                /\ Exists(memories', Get(memories', h.memory_id).superseded_by) ]_vars

\* C14 witness: delete_memory has removed a memory whose history rows are
\* still stored.
C14_Witness ==
  /\ lastOp.op = "delete_memory"
  /\ lastOp.res = "OK"
  /\ ~Exists(memories, lastOp.id)
  /\ \E i \in 1..Len(memory_history) : memory_history[i].memory_id = lastOp.id


\* The hybrid_search calls that resolve their weights in this step.
NewHybridCalls == {c \in search_calls' \ search_calls : c.op = "hybrid_search"}

\* C15: hybrid_search resolves each of the four weights on its own: the
\* override of the call if one was supplied, whatever its value (0 included),
\* else the persisted retrieval.<name>_weight of the searched database, else
\* the default; a persisted value never replaces a supplied override.
C15_OverrideWins ==
  [][\A c \in NewHybridCalls : \A f \in WeightNames :
       c.weights[f] =
         IF f \in DOMAIN c.overrides THEN c.overrides[f]
         ELSE IF f \in DOMAIN config[c.db] THEN ParseFloat(config[c.db][f])
         ELSE DefaultWeights[f]]_vars

\* C16: once set_config has stored a retrieval.*_weight, the next
\* hybrid_search that does not override that weight uses the stored value,
\* whichever database it searches.
C16_StoredWeightUsed ==
  [][\A c \in NewHybridCalls :
       \A f \in (DOMAIN config["core"] \cap WeightNames) \ DOMAIN c.overrides :
         c.weights[f] = ParseFloat(config["core"][f])]_vars

\* The last call was a hybrid_search that returned results.
HybridAnswered == lastSearch.op = "hybrid_search" /\ lastSearch.res = "OK"

\* The score of the spec as a fraction, in ten-thousandths: vector_weight /
\* (60 + vector_rank) + fts_weight / (60 + fts_rank) + recency_weight *
\* decay_score + importance_weight * importance / 5, a missing list (rank 0)
\* contributing 0.
FusionDen(e) ==
  (IF e.vector_rank = 0 THEN 1 ELSE 60 + e.vector_rank)
    * (IF e.fts_rank = 0 THEN 1 ELSE 60 + e.fts_rank)

FusionNum(w, e) ==
  (IF e.vector_rank = 0 THEN 0
   ELSE 1000 * w.vector * (IF e.fts_rank = 0 THEN 1 ELSE 60 + e.fts_rank))
  + (IF e.fts_rank = 0 THEN 0
     ELSE 1000 * w.fts * (IF e.vector_rank = 0 THEN 1 ELSE 60 + e.vector_rank))
  + (100 * w.recency * e.decay_score + 200 * w.importance * e.importance)
      * FusionDen(e)

\* C17 as stated: the score of every returned memory equals the formula.
C17_ScoreIsFormula ==
  HybridAnswered =>
    \A i \in DOMAIN lastSearch.results :
      LET e == lastSearch.results[i]
      IN e.score * FusionDen(e) = FusionNum(lastSearch.weights, e)

\* C17: the score of every returned memory is the formula of the resolved
\* weights, the 1-based ranks, the decay_score and the importance, rounded to
\* four decimal places.
C17_ScoreIsRoundedFormula ==
  HybridAnswered =>
    \A i \in DOMAIN lastSearch.results :
      LET e == lastSearch.results[i]
          diff == e.score * FusionDen(e) - FusionNum(lastSearch.weights, e)
      IN /\ 2 * diff <= FusionDen(e)
         /\ 2 * diff > 0 - FusionDen(e)

\* A memory that is first in the vector list and absent from the text list
\* was scored and returned, with a non-zero vector weight.
C17_Witness ==
  /\ HybridAnswered
  /\ lastSearch.weights.vector > 0
  /\ \E i \in DOMAIN lastSearch.results :
       /\ lastSearch.results[i].vector_rank = 1
       /\ lastSearch.results[i].fts_rank = 0

\* This step is the return of a call of op with results.
SearchReturns(op) ==
  /\ \E c \in search_calls \ search_calls' : c.op = op
  /\ lastSearch'.res = "OK"

\* The ids a search lists.
Listed(answer) == {answer.results[i].id : i \in DOMAIN answer.results}

\* C18: every memory hybrid_search returns is active when the call returns,
\* and it returns at most limit (20 without one) memories; a memory retired
\* by supersede_memory or handle_correction is not listed, with or without a
\* vector entry or a text match.
C18_OnlyActiveWithinLimit ==
  [][SearchReturns("hybrid_search") =>
       /\ \A id \in Listed(lastSearch') :
            \E k \in DOMAIN memories' :
              memories'[k].id = id /\ memories'[k].status = "active"
       /\ Len(lastSearch'.results) <=
            (IF lastSearch'.limit = NoLimit THEN 20 ELSE lastSearch'.limit)]_vars

\* hybrid_search has returned while a retired memory still had its vector
\* entry and matched the query text, and another memory was listed.
C18_Witness ==
  /\ lastOp.op = "hybrid_search"
  /\ lastOp.res = "OK"
  /\ Listed(lastSearch) # {}
  /\ \E k \in DOMAIN memories \cap DOMAIN vec_memories :
       /\ memories[k].status \in {"superseded", "archived"}
       /\ \E e \in memories_fts : e.rowid = k /\ FtsMatch(e, lastSearch.query)

\* a is ranked before b, or level with it: higher score, or the same score
\* and not updated earlier.
RankedBefore(a, b) ==
  \/ a.score > b.score
  \/ (a.score = b.score /\ a.updated_at >= b.updated_at)

\* C19: the list hybrid_search returns is in descending order of score, of
\* two memories with the same score the more recently updated one first, and
\* it is the first limit elements of that order over all scored active
\* candidates.
C19_OrderedByScoreThenRecency ==
  HybridAnswered =>
    /\ \A i, j \in DOMAIN lastSearch.results :
         i < j => RankedBefore(lastSearch.results[i], lastSearch.results[j])
    /\ \A e \in lastSearch.scored :
         e.id \notin Listed(lastSearch) =>
           \A i \in DOMAIN lastSearch.results : RankedBefore(lastSearch.results[i], e)

\* This step is the return of a hybrid_search or semantic_search call.
RetrievalReturns ==
  \E c \in search_calls \ search_calls' : c.op \in {"hybrid_search", "semantic_search"}

\* C20: when hybrid_search or semantic_search returns, every memory it lists
\* has access_count one higher and decay_score = min(1.0, decay_score + 0.1),
\* every other memory keeps both; decay_score stays within [0, 1] and no step
\* of any operation lowers the decay_score of a memory.
C20_AccessTrackedOncePerCall ==
  [][/\ RetrievalReturns =>
          /\ DOMAIN memories' = DOMAIN memories
          /\ \A k \in DOMAIN memories :
               IF memories[k].id \in Listed(lastSearch') THEN
                 /\ memories'[k].access_count = memories[k].access_count + 1
                 /\ memories'[k].decay_score =
                      (IF memories[k].decay_score + 1 > 10 THEN 10
                       ELSE memories[k].decay_score + 1)
               ELSE
                 /\ memories'[k].access_count = memories[k].access_count
                 /\ memories'[k].decay_score = memories[k].decay_score
     /\ \A k \in DOMAIN memories' : memories'[k].decay_score \in 0..10
     /\ \A k \in DOMAIN memories \cap DOMAIN memories' :
          memories'[k].id = memories[k].id =>
            memories'[k].decay_score >= memories[k].decay_score]_vars

\* A search has returned one memory for the second time and left another
\* memory of the database out.
C20_Witness ==
  /\ lastOp.op \in {"hybrid_search", "semantic_search"}
  /\ lastOp.res = "OK"
  /\ \E k \in DOMAIN memories :
       memories[k].id \in Listed(lastSearch) /\ memories[k].access_count = 2
  /\ \E k \in DOMAIN memories :
       memories[k].id \notin Listed(lastSearch) /\ memories[k].access_count = 0

\* C21: get_memories updates the access tracking of every memory it
\* returns: access_count one higher, last_accessed_at set to the time of the
\* call, decay_score raised by 0.1 and capped at 1.0.
C21_GetMemoriesTracksAccess ==
  [][(lastOp'.op = "get_memories" /\ opCount' = opCount + 1) =>
       \A k \in DOMAIN memories :
         memories[k].id \in lastOp'.ids =>
           /\ k \in DOMAIN memories'
           /\ memories'[k].access_count = memories[k].access_count + 1
           /\ memories'[k].last_accessed_at # Never
           /\ memories'[k].decay_score =
                (IF memories[k].decay_score + 1 > 10 THEN 10
                 ELSE memories[k].decay_score + 1)]_vars

\* The active memories whose stored vector is the embedding of text.
ActiveAtDistanceZero(text) ==
  {k \in DOMAIN memories \cap DOMAIN vec_memories :
     memories[k].status = "active" /\ vec_memories[k] = generateEmbedding(text)}

\* C22: semantic_search for the text of an active memory that was saved
\* before the call and whose embedding is stored returns that memory, for
\* every limit that leaves room for the active memories with that embedding,
\* also when retired memories have the same embedding.
C22_SavedTextIsFound ==
  [][\A c \in search_calls \ search_calls' :
       ( /\ c.op = "semantic_search"
         /\ lastSearch'.res = "OK"
         /\ Cardinality(ActiveAtDistanceZero(c.query)) <=
              (IF c.limit = NoLimit THEN 20 ELSE c.limit) ) =>
         \A k \in ActiveAtDistanceZero(c.query) :
           (memories[k].updated_at < c.call + 2 /\ memories[k].content = c.query)
             => memories[k].id \in Listed(lastSearch')]_vars


\* The search calls that return in this step.
ReturningSearches == search_calls \ search_calls'

\* C23: a hybrid_search or semantic_search whose query embedding cannot be
\* produced returns an error and no record, hybrid_search with the advice to
\* run batch_embed, and leaves every table as it was.
C23_EmbeddingErrorWritesNothing ==
  [][\A c \in ReturningSearches :
       extractorPromise = "failed" =>
         /\ lastSearch'.res = "ERROR"
         /\ lastOp'.res = "ERROR"
         /\ lastSearch'.results = <<>>
         /\ lastOp'.ids = {}
         /\ (c.op = "hybrid_search" => lastSearch'.hint = "batch_embed")
         /\ memories' = memories
         /\ memories_fts' = memories_fts
         /\ vec_memories' = vec_memories
         /\ query_log' = query_log]_vars

\* hybrid_search has returned the error for a query that matches the text
\* of an active memory.
C23_Witness ==
  /\ lastOp.op = "hybrid_search"
  /\ lastOp.res = "ERROR"
  /\ lastSearch.res = "ERROR"
  /\ extractorPromise = "failed"
  /\ FtsActive(Tables, lastSearch.query) # {}

\* C24: a hybrid_search or semantic_search that got its query embedding
\* makes one query_log insert, of the ids it returns in their order; when
\* the insert fails nothing is logged, and either way the call returns its
\* results and has updated the access tracking of each returned memory.
C24_OneLogInsertSwallowed ==
  [][\A c \in ReturningSearches :
       extractorPromise = "ready" =>
         /\ lastOp'.res = "OK"
         /\ lastSearch'.res = "OK"
         /\ lastOp'.ids = Listed(lastSearch')
         /\ \/ query_log' = query_log
            \/ query_log' =
                 Append(query_log,
                   [db |-> c.db, query_source |-> c.op,
                    result_count |-> Len(lastSearch'.results),
                    result_ids |-> [i \in DOMAIN lastSearch'.results |->
                                      lastSearch'.results[i].id]])
         /\ \A k \in DOMAIN memories :
              memories[k].id \in Listed(lastSearch') =>
                memories'[k].access_count = memories[k].access_count + 1]_vars

\* A search has returned memories and updated their access tracking while
\* its query_log insert failed.
C24_Witness ==
  /\ lastOp.op \in {"hybrid_search", "semantic_search"}
  /\ lastOp.res = "OK"
  /\ lastOp.ids # {}
  /\ query_log = <<>>
  /\ \A k \in DOMAIN memories :
       memories[k].id \in lastOp.ids => memories[k].access_count > 0

\* The number of calls suspended at await getExtractor().
Waiting ==
  Cardinality(embed_tasks) + Cardinality(smart_calls) + Cardinality(batch_calls)
    + Cardinality(search_calls)

\* C25: however many generateEmbedding and generateEmbeddings calls start
\* before the model is loaded, the load is started once: the first call
\* starts it, every caller waits on that load, and none is started again
\* while it runs or after it has succeeded.
C25_OneLoadShared ==
  /\ pipelineCalls <= 1
  /\ (pipelineCalls = 0) = (extractorPromise = "null")
  /\ (Waiting > 0 => extractorPromise # "null")

\* Two calls wait on the load at once.
C25_Witness ==
  /\ extractorPromise = "loading"
  /\ Waiting >= 2
  /\ pipelineCalls = 1

TextSimilar(content) ==
  {k \in FtsActive(Tables, content) :
     SimilarityAboveHalf(memories[k].content, content)}

\* C27: smart_save_memory without force_add whose embedding succeeded and
\* whose vector search found no match still runs the text search: an active
\* memory that matches the content with token overlap above 0.5 is reported
\* as similar, and the call returns needs_decision.
C27_TextFallbackWithoutError ==
  [][\A c \in smart_calls \ smart_calls' :
       (extractorPromise = "ready" /\ lastOp'.res # "THROWN") =>
         \A k \in TextSimilar(c.content) :
           /\ lastOp'.res = "needs_decision"
           /\ (\A j \in DOMAIN vec_memories \cap DOMAIN memories :
                 ~(/\ memories[j].status = "active"
                   /\ DistanceBelowThreshold(vec_memories[j],
                                             generateEmbedding(c.content))))
                => memories[k].id \in lastOp'.ids]_vars

\* The embedding writes that end in this step: [id, rowid] of the autoEmbed
\* call or of each row of the batch_embed call.
EndingEmbeds ==
  {[id |-> t.id, rowid |-> t.rowid] : t \in embed_tasks \ embed_tasks'}
  \cup UNION {{[id |-> r.id, rowid |-> r.rowid] : r \in c.rows}
                : c \in batch_calls \ batch_calls'}

\* C28: a vector is stored under rowid k only for the memory that occupies
\* rowid k, and a memory that takes a rowid finds no vector of another
\* memory under it, whatever delete_memory and later inserts do between the
\* rowid lookup and the vector write.
C28_VectorBelongsToRow ==
  [][/\ \A k \in DOMAIN vec_memories' :
          (k \notin DOMAIN vec_memories \/ vec_memories'[k] # vec_memories[k]) =>
            \E e \in EndingEmbeds :
              /\ e.rowid = k
              /\ k \in DOMAIN memories'
              /\ memories'[k].id = e.id
     /\ \A k \in DOMAIN memories' :
          (k \notin DOMAIN memories \/ memories[k].id # memories'[k].id) =>
            k \notin DOMAIN vec_memories']_vars

\* C30: every superseded_by that is not NULL names a stored memory, and
\* every 'supersedes' or 'corrects' link has a stored memory as its source
\* and as its target.
C30_NoDanglingReference ==
  /\ \A k \in DOMAIN memories :
       memories[k].superseded_by # NoId => Exists(memories, memories[k].superseded_by)
  /\ \A l \in links :
       l.relationship \in {"supersedes", "corrects"} =>
         Exists(memories, l.source_id) /\ Exists(memories, l.target_id)

\* The batch_embed calls that return in this step and were made right after
\* a batch_embed call had returned, with no tool call since and nothing else
\* suspended.
BatchAfterBatch ==
  {c \in batch_calls \ batch_calls' :
     /\ c.prior.op = "batch_embed"
     /\ c.prior.res = "OK"
     /\ c.call = opCount
     /\ batch_calls = {c}
     /\ embed_tasks = {} /\ smart_calls = {} /\ search_calls = {}}

\* The active memories without embedding whose rowid is free in vec_memories.
Embeddable ==
  {k \in DOMAIN memories :
     /\ memories[k].has_embedding = 0
     /\ memories[k].status = "active"
     /\ k \notin DOMAIN vec_memories}

\* C26: a batch_embed call made right after another batch_embed call, with
\* nothing created or changed in between, reports embedded = 0 and changes
\* no table.
C26_SecondBatchEmbedsNothing ==
  [][\A c \in BatchAfterBatch :
       /\ lastOp'.ids = {}
       /\ UNCHANGED <<memories, memories_fts, vec_memories, links, memory_history>>]_vars

\* C26 (amended): a batch_embed call made right after another batch_embed
\* call embeds no memory the first call embedded, embeds only memories that
\* were active with has_embedding = 0, sets the flag of each memory it
\* embeds, and changes no memory that has its embedding; when no active
\* memory without embedding has a free rowid it reports embedded = 0 and
\* changes no table.
C26_SecondBatchEmbedsTheRest ==
  [][\A c \in BatchAfterBatch :
       /\ lastOp'.ids \cap c.prior.ids = {}
       /\ \A id \in lastOp'.ids :
            \E k \in Embeddable :
              /\ memories[k].id = id
              /\ k \in DOMAIN memories' /\ memories'[k].has_embedding = 1
              /\ k \in DOMAIN vec_memories'
              /\ vec_memories'[k] = generateEmbedding(memories[k].content)
       /\ \A k \in DOMAIN memories :
            memories[k].has_embedding = 1 =>
              /\ k \in DOMAIN memories' /\ memories'[k] = memories[k]
              /\ k \in DOMAIN vec_memories =>
                   k \in DOMAIN vec_memories' /\ vec_memories'[k] = vec_memories[k]
       /\ Embeddable = {} =>
            /\ lastOp'.ids = {}
            /\ UNCHANGED <<memories, memories_fts, vec_memories, links, memory_history>>]_vars

\* Two batch_embed calls with limit 1 have returned, each having embedded
\* one of the two memories that had no embedding.
C26_Witness ==
  /\ opCount = 2
  /\ lastOp.op = "batch_embed" /\ lastOp.res = "OK"
  /\ Cardinality(lastOp.ids) = 1
  /\ batch_calls = {}
  /\ Cardinality(DOMAIN memories) = 3
  /\ \A k \in DOMAIN memories :
       memories[k].has_embedding = 1 /\ k \in DOMAIN vec_memories
====
